---- MODULE Spec2Model ----
(***************************************************************************)
(* Model of src/scheduling-turing-machine.py: a SchedulingTuringMachine    *)
(* instance (tape automaton + greedy scheduler) and the calls of           *)
(* process_orders made on it.  One Step is one iteration of the run loop.  *)
(***************************************************************************)
EXTENDS Integers, Sequences, FiniteSets, TLC

(***************************************************************************)
(* Bounds of the model.                                                    *)
(***************************************************************************)
\* Orders passed to the instance over all its calls (the list of main() aside).
MaxTotal == 3
\* Number of process_orders calls made on the instance.
MaxCalls == 2

(***************************************************************************)
(* Python floats.  order_size / production_rate (line 140) is a true       *)
(* division: its result is the IEEE-754 binary64 nearest to the quotient,  *)
(* and += on machine_times (line 141) is a binary64 addition, both rounded *)
(* to nearest, ties to even.  A float is Zero or a record                  *)
(*   [sign |-> 0 or 1, exp |-> e, hi |-> h, lo |-> l]                      *)
(* of value (-1)^sign * 0.b1...b53 (binary) * 2^e, where b1 = 1, b1...b26  *)
(* are the bits of h and b27...b53 those of l.  The magnitudes of the      *)
(* program stay far from the overflow and subnormal ranges, so exp is an   *)
(* unbounded integer here.  The sign of a zero is dropped: Python compares *)
(* -0.0 and 0 as equal and the program never looks at the sign of a zero.  *)
(***************************************************************************)
Precision == 53
HiWidth == 26
LoWidth == 27

Zero == [sign |-> 0, exp |-> 0, hi |-> 0, lo |-> 0]

IsZero(x) == x.hi = 0

RECURSIVE Pow2(_)
Pow2(k) == IF k = 0 THEN 1 ELSE 2 * Pow2(k - 1)

Abs(n) == IF n < 0 THEN -n ELSE n

\* The least e >= lo with n < d * 2^e  (n, d > 0).
RECURSIVE ExpUp(_, _, _)
ExpUp(n, d, e) == IF n < d * Pow2(e) THEN e ELSE ExpUp(n, d, e + 1)

\* The least k >= 0 with n * 2^k >= d  (n, d > 0).
RECURSIVE ExpDown(_, _, _)
ExpDown(n, d, k) == IF n * Pow2(k) >= d THEN k ELSE ExpDown(n, d, k + 1)

\* Round to nearest, ties to even: hi and lo are the Precision leading bits
\* of the exact magnitude 0.b1b2... * 2^e, `half` is the bit after them and
\* `sticky` whether anything non-zero follows that.
RoundNearestEven(sign, e, hi, lo, half, sticky) ==
    IF half = 1 /\ (sticky \/ lo % 2 = 1)
    THEN IF lo + 1 < Pow2(LoWidth)
         THEN [sign |-> sign, exp |-> e, hi |-> hi, lo |-> lo + 1]
         ELSE IF hi + 1 < Pow2(HiWidth)
         THEN [sign |-> sign, exp |-> e, hi |-> hi + 1, lo |-> 0]
         ELSE [sign |-> sign, exp |-> e + 1, hi |-> Pow2(HiWidth - 1), lo |-> 0]
    ELSE [sign |-> sign, exp |-> e, hi |-> hi, lo |-> lo]

\* Long division, at most Chunk bits at a time: the next k bits of r/d after
\* the point (0 <= r < d < 2^22, k <= Chunk) and the remainder they leave.
Chunk == 9

DivStep(r, d, k) == [q |-> (r * Pow2(k)) \div d, r |-> (r * Pow2(k)) % d]

\* The next `width` bits of r/d (Chunk < width <= 3 * Chunk), as a number,
\* and the remainder they leave.
DivBits(r, d, width) ==
    LET a == DivStep(r, d, Chunk)
        b == DivStep(a.r, d, Chunk)
        c == DivStep(b.r, d, width - 2 * Chunk)
    IN  [q |-> (a.q * Pow2(Chunk) + b.q) * Pow2(width - 2 * Chunk) + c.q, r |-> c.r]

\* n / d for Python ints n >= 0 and d # 0: the binary64 nearest to n/d.
TrueDiv(n, d) ==
    IF n = 0 THEN Zero
    ELSE LET a    == Abs(d)
             e    == IF n >= a THEN ExpUp(n, a, 1) ELSE 0 - ExpDown(2 * n, a, 0)
             num  == IF e >= 0 THEN n ELSE n * Pow2(0 - e)
             den  == IF e >= 0 THEN a * Pow2(e) ELSE a
             hi   == DivBits(num, den, HiWidth)
             lo   == DivBits(hi.r, den, LoWidth)
             half == DivStep(lo.r, den, 1)
         IN  RoundNearestEven(IF d < 0 THEN 1 ELSE 0, e, hi.q, lo.q, half.q, half.r # 0)

\* The mantissa of x moved d bits to the right (d >= 1): the bits that stay,
\* the first bit that falls off and whether a later one that falls off is 1.
ShiftRight(x, d) ==
    IF d <= LoWidth
    THEN [hi     |-> x.hi \div Pow2(d),
          lo     |-> (x.lo \div Pow2(d)) + (x.hi % Pow2(d)) * Pow2(LoWidth - d),
          half   |-> (x.lo % Pow2(d)) \div Pow2(d - 1),
          sticky |-> (x.lo % Pow2(d - 1)) # 0]
    ELSE [hi     |-> 0,
          lo     |-> x.hi \div Pow2(d - LoWidth),
          half   |-> (x.hi \div Pow2(d - LoWidth - 1)) % 2,
          sticky |-> (x.hi % Pow2(d - LoWidth - 1)) # 0 \/ x.lo # 0]

\* Whether the magnitude of x is below that of y (neither is Zero).
MagLess(x, y) == \/ x.exp < y.exp
                 \/ x.exp = y.exp /\ x.hi < y.hi
                 \/ x.exp = y.exp /\ x.hi = y.hi /\ x.lo < y.lo

\* x < y on floats.
FloatLess(x, y) ==
    IF IsZero(x) THEN ~IsZero(y) /\ y.sign = 0
    ELSE IF IsZero(y) THEN x.sign = 1
    ELSE IF x.sign # y.sign THEN x.sign = 1
    ELSE IF x.sign = 0 THEN MagLess(x, y) ELSE MagLess(y, x)

\* x + y on floats that are not of opposite signs.  Every addend of the
\* program is order_size / production_rate with order_size >= 0 (a digit
\* run), so all the floats of one instance have the sign of production_rate.
FloatAdd(x, y) ==
    IF IsZero(x) THEN y
    ELSE IF IsZero(y) THEN x
    ELSE LET big   == IF x.exp >= y.exp THEN x ELSE y
             small == IF x.exp >= y.exp THEN y ELSE x
             d     == big.exp - small.exp
         IN  IF d > Precision + 1 THEN big
             ELSE LET s  == IF d = 0
                            THEN [hi |-> small.hi, lo |-> small.lo,
                                  half |-> 0, sticky |-> FALSE]
                            ELSE ShiftRight(small, d)
                      lo == big.lo + s.lo
                      hi == big.hi + s.hi + lo \div Pow2(LoWidth)
                  IN  IF hi < Pow2(HiWidth)
                      THEN RoundNearestEven(big.sign, big.exp, hi, lo % Pow2(LoWidth),
                                            s.half, s.sticky)
                      ELSE RoundNearestEven(big.sign, big.exp + 1, hi \div 2,
                                            (lo % Pow2(LoWidth)) \div 2
                                                + (hi % 2) * Pow2(LoWidth - 1),
                                            lo % 2, s.half = 1 \/ s.sticky)

(***************************************************************************)
(* Inputs.                                                                 *)
(***************************************************************************)
\* The order list of main().
MainOrders == <<50, 100, 200, 20, 10, 30, 1000, 500, 800, 80, 70>>

\* The defaults of __init__.
DefaultNumMachines == 5
DefaultProductionRate == 10

\* (num_machines, production_rate) of the instances constructed; __init__
\* accepts any pair of ints.
Configs == { <<DefaultNumMachines, DefaultProductionRate>>,
             <<1, 10>>, <<2, 10>>, <<2, 3>>,
             <<0, 10>>, <<-1, 10>>, <<2, 0>>, <<2, -10>> }

\* The order sizes passed in: none, one digit, several digits, negative.
Sizes == {-5, 0, 1, 2, 10}

\* The order lists of at most n orders.
RECURSIVE OrderLists(_)
OrderLists(n) ==
    IF n <= 0 THEN {<<>>}
    ELSE OrderLists(n - 1) \cup
         {Append(l, x) : l \in {m \in OrderLists(n - 1) : Len(m) = n - 1}, x \in Sizes}

(***************************************************************************)
(* Symbols, str() and int().                                               *)
(***************************************************************************)
digits == <<"0", "1", "2", "3", "4", "5", "6", "7", "8", "9">>

Range(f) == {f[i] : i \in DOMAIN f}

\* str.isdigit() on one tape symbol.
isdigit(symbol) == symbol \in Range(digits)

\* The decimal digits of n >= 0.
RECURSIVE DecimalDigits(_)
DecimalDigits(n) ==
    IF n < 10 THEN <<digits[n + 1]>>
    ELSE Append(DecimalDigits(n \div 10), digits[(n % 10) + 1])

\* str(order) for a Python int, one character per element.
str(order) == IF order < 0 THEN <<"-">> \o DecimalDigits(0 - order)
              ELSE DecimalDigits(order)

DigitValue(c) == CHOOSE d \in 0..9 : digits[d + 1] = c

\* int("".join(current_number)) for a non-empty sequence of digits.
RECURSIVE int(_)
int(number) ==
    IF Len(number) = 1 THEN DigitValue(number[1])
    ELSE 10 * int(SubSeq(number, 1, Len(number) - 1)) + DigitValue(number[Len(number)])

(***************************************************************************)
(* The transition table built by _setup_states.                            *)
(***************************************************************************)
None == "None"

Transition(next_state, write_symbol, direction) ==
    [next_state |-> next_state, write_symbol |-> write_symbol, direction |-> direction]

is_final(state) == state = "FINAL"

\* What dict.get returns for a missing key.
NoTransition == Transition(None, None, None)

\* START with the blank read as the start of a number.
StartTransitionsBlankReads ==
    [symbol \in {"B", "#"} \cup Range(digits) |-> Transition("READ", symbol, "R")]

StartTransitions ==
    [symbol \in {"B", "#"} \cup Range(digits) |->
        IF symbol = "B" THEN Transition("FINAL", "B", "R")
        ELSE Transition("READ", symbol, "R")]

\* READ marking each digit as it reads it.
ReadTransitionsMarking ==
    [symbol \in {"B", "#"} \cup Range(digits) |->
        IF isdigit(symbol) THEN Transition("READ", "*", "R")
        ELSE Transition("MARK", symbol, "L")]

\* READ going on to the right at the end of a number instead of a step back.
ReadTransitionsNoStepBack ==
    [symbol \in {"B", "#"} \cup Range(digits) |->
        IF isdigit(symbol) THEN Transition("READ", symbol, "R")
        ELSE Transition("MARK", symbol, "R")]

ReadTransitions ==
    [symbol \in {"B", "#"} \cup Range(digits) |->
        IF isdigit(symbol) THEN Transition("READ", symbol, "R")
        ELSE Transition("MARK", symbol, "L")]

MarkTransitions ==
    [symbol \in {"#"} \cup Range(digits) |->
        IF isdigit(symbol) THEN Transition("MARK", "*", "L")
        ELSE Transition("NEXT", "#", "R")]

\* NEXT passing over the separator as it passes over '*'.
NextTransitionsPassingSeparator ==
    [symbol \in {"B", "#", "*"} \cup Range(digits) |->
        IF symbol = "B" THEN Transition("FINAL", "B", "R")
        ELSE IF symbol \in {"*", "#"} THEN Transition("NEXT", symbol, "R")
        ELSE Transition("READ", symbol, "R")]

NextTransitions ==
    [symbol \in {"B", "#", "*"} \cup Range(digits) |->
        IF symbol = "B" THEN Transition("FINAL", "B", "R")
        ELSE IF symbol = "*" THEN Transition("NEXT", "*", "R")
        ELSE Transition("READ", symbol, "R")]

transitions(state) ==
    CASE state = "START" -> StartTransitions
      [] state = "READ"  -> ReadTransitions
      [] state = "MARK"  -> MarkTransitions
      [] state = "NEXT"  -> NextTransitions
      [] state = "FINAL" -> [symbol \in {} |-> NoTransition]

\* A lookup that falls back to passing over the symbol, to the right.
get_transition_or_skip(state, symbol) ==
    IF symbol \in DOMAIN transitions(state) THEN transitions(state)[symbol]
    ELSE Transition(state, symbol, "R")

\* TuringMachineState.get_transition: dict.get, None for a missing key.
get_transition(state, symbol) ==
    IF symbol \in DOMAIN transitions(state) THEN transitions(state)[symbol] ELSE NoTransition

(***************************************************************************)
(* The tape.                                                               *)
(***************************************************************************)
\* The tape with the separator after each number instead of before it.
RECURSIVE _prepare_tape_cells_separator_after(_)
_prepare_tape_cells_separator_after(orders) ==
    IF orders = <<>> THEN <<>>
    ELSE str(Head(orders)) \o <<"#">> \o _prepare_tape_cells_separator_after(Tail(orders))

RECURSIVE _prepare_tape_cells(_)
_prepare_tape_cells(orders) ==
    IF orders = <<>> THEN <<>>
    ELSE <<"#">> \o str(Head(orders)) \o _prepare_tape_cells(Tail(orders))

_prepare_tape(orders) == _prepare_tape_cells(orders) \o <<"B">>

\* Whether the list index `position` of a Python list of length n is valid:
\* negative indices count from the end.
ValidIndex(n, position) == -n <= position /\ position < n

\* The 1-based element of the sequence that list index `position` denotes.
ListIndex(n, position) == IF position < 0 THEN n + position + 1 ELSE position + 1

(***************************************************************************)
(* The scheduler.                                                          *)
(***************************************************************************)
\* The scan with <= for <: the last machine of minimal time wins.
RECURSIVE ScanLastMin(_, _, _, _)
ScanLastMin(times, i, num, acc) ==
    IF i >= num THEN acc
    ELSE IF acc.inf \/ ~FloatLess(acc.min_time, times[i + 1])
    THEN ScanLastMin(times, i + 1, num,
                     [inf |-> FALSE, min_time |-> times[i + 1], best_machine |-> i])
    ELSE ScanLastMin(times, i + 1, num, acc)

\* The scan of _find_best_machine over machines i, i+1, ..., num - 1
\* (0-based), from min_time (inf until a machine was taken) and best_machine.
RECURSIVE Scan(_, _, _, _)
Scan(times, i, num, acc) ==
    IF i >= num THEN acc
    ELSE IF acc.inf \/ FloatLess(times[i + 1], acc.min_time)
    THEN Scan(times, i + 1, num, [inf |-> FALSE, min_time |-> times[i + 1], best_machine |-> i])
    ELSE Scan(times, i + 1, num, acc)

\* The scan started at machine 1: range(1, num_machines).
FindBestSkipFirst(times, num) ==
    Scan(times, 1, num, [inf |-> TRUE, min_time |-> Zero, best_machine |-> 0])

\* min_time and best_machine after the loop of _find_best_machine.
FindBest(times, num) == Scan(times, 0, num, [inf |-> TRUE, min_time |-> Zero, best_machine |-> 0])

\* The schedule entry appended for an order.
Entry(order_size, start_time) == [size |-> order_size, start_time |-> start_time]

\* _generate_schedule: Machine_<i> is element i.
_generate_schedule(schedules, times) ==
    [i \in DOMAIN schedules |-> [orders |-> schedules[i], total_time |-> times[i]]]

(***************************************************************************)
(* State.                                                                  *)
(***************************************************************************)
VARIABLES
    num_machines,       \* self.num_machines
    production_rate,    \* self.production_rate
    tape,               \* self.tape, the cells' values
    head_position,      \* self.head_position (0-based)
    current_state,      \* self.current_state.name
    current_number,     \* self.current_number
    machine_times,      \* self.machine_times (element i+1 is machine i)
    machine_schedules,  \* self.machine_schedules
    pc,                 \* "idle" | "running" | "returned" | "raised"
    result,             \* <<the schedule the last call returned>>, or <<>>
    error,              \* what the last call raised, or NoError
    orders,             \* the argument of the current call
    committed,          \* the assignments this call has made, in order
    last,               \* <<the last assignment and the loads it saw>>, or <<>>
    entry_times,        \* machine_times when the current call started
    entry_schedules,    \* machine_schedules when the current call started
    calls,              \* calls made so far
    total,              \* orders passed in so far
    steps               \* the loop iterations this call has completed, in order

vars == <<num_machines, production_rate, tape, head_position, current_state,
          current_number, machine_times, machine_schedules, pc, result, error,
          orders, committed, last, entry_times, entry_schedules, calls, total,
          steps>>

NoError == [kind |-> None, state |-> None, symbol |-> None]

\* __init__(num_machines, production_rate)
Construct(n, rate) ==
    /\ num_machines = n
    /\ production_rate = rate
    /\ tape = <<>>
    /\ head_position = 0
    /\ current_state = "START"
    /\ current_number = <<>>
    /\ machine_times = [i \in 1..n |-> Zero]
    /\ machine_schedules = [i \in 1..n |-> <<>>]

Init ==
    /\ \E c \in Configs : Construct(c[1], c[2])
    /\ pc = "idle"
    /\ result = <<>>
    /\ error = NoError
    /\ orders = <<>>
    /\ committed = <<>>
    /\ last = <<>>
    /\ entry_times = <<>>
    /\ entry_schedules = <<>>
    /\ calls = 0
    /\ total = 0
    /\ steps = <<>>

(***************************************************************************)
(* process_orders.                                                         *)
(***************************************************************************)
\* A reset that also clears the scheduling data, as __init__ sets it.
ResetWithLoads(new_orders) ==
    /\ tape' = _prepare_tape(new_orders)
    /\ head_position' = 0
    /\ current_state' = "START"
    /\ current_number' = <<>>
    /\ machine_times' = [i \in DOMAIN machine_times |-> Zero]
    /\ machine_schedules' = [i \in DOMAIN machine_schedules |-> <<>>]
    /\ UNCHANGED <<num_machines, production_rate>>

\* A reset without line 168: the automaton state stays where the call
\* before left it.
ResetKeepingState(new_orders) ==
    /\ tape' = _prepare_tape(new_orders)
    /\ head_position' = 0
    /\ current_number' = <<>>
    /\ UNCHANGED <<num_machines, production_rate, current_state, machine_times,
                   machine_schedules>>

\* Lines 165-169: what process_orders sets before the run loop.  Nothing
\* there touches machine_times or machine_schedules.
Reset(new_orders) ==
    /\ tape' = _prepare_tape(new_orders)
    /\ head_position' = 0
    /\ current_state' = "START"
    /\ current_number' = <<>>
    /\ UNCHANGED <<num_machines, production_rate, machine_times, machine_schedules>>

\* The call, up to the run loop (lines 163-171).
ProcessOrders(new_orders) ==
    /\ pc \in {"idle", "returned", "raised"}
    /\ calls < MaxCalls
    /\ \/ total + Len(new_orders) <= MaxTotal
       \/ calls = 0 /\ new_orders = MainOrders
    /\ Reset(new_orders)
    /\ pc' = "running"
    /\ result' = <<>>
    /\ error' = NoError
    /\ orders' = new_orders
    /\ committed' = <<>>
    /\ last' = <<>>
    /\ entry_times' = machine_times
    /\ entry_schedules' = machine_schedules
    /\ calls' = calls + 1
    /\ total' = total + Len(new_orders)
    /\ steps' = <<>>

\* An exception leaves process_orders: the instance stays as it is.
Raise(kind, state, symbol) ==
    /\ pc' = "raised"
    /\ error' = [kind |-> kind, state |-> state, symbol |-> symbol]
    /\ UNCHANGED <<num_machines, production_rate, tape, head_position, current_state,
                   current_number, machine_times, machine_schedules, result, orders,
                   committed, last, entry_times, entry_schedules, calls, total, steps>>

\* An iteration completed: the state it ran in, the cell it read and the
\* symbol there, and whether it called _find_best_machine.
Completed(commit) ==
    steps' = Append(steps, [state |-> current_state, position |-> head_position,
                            symbol |-> tape[ListIndex(Len(tape), head_position)],
                            commit |-> commit])

\* Lines 196-199: write, switch state, move.
Apply(transition) ==
    /\ tape' = [tape EXCEPT ![ListIndex(Len(tape), head_position)] = transition.write_symbol]
    /\ current_state' = transition.next_state
    /\ head_position' = head_position + (IF transition.direction = "R" THEN 1 ELSE -1)

\* The assignment on logs that are one shared list ([[]] * num_machines):
\* the entry shows in the log of every machine.
AssignSharedLog(order_size, transition) ==
    IF production_rate = 0
    THEN Raise("ZeroDivisionError", current_state, tape[ListIndex(Len(tape), head_position)])
    ELSE IF Len(machine_times) = 0
    THEN Raise("IndexError", current_state, tape[ListIndex(Len(tape), head_position)])
    ELSE LET found == FindBest(machine_times, num_machines)
             best  == found.best_machine + 1
         IN  /\ machine_times' =
                    [machine_times EXCEPT
                       ![best] = FloatAdd(@, TrueDiv(order_size, production_rate))]
             /\ machine_schedules' =
                    [j \in DOMAIN machine_schedules |->
                        Append(machine_schedules[j], Entry(order_size, found.min_time))]
             /\ current_number' = <<>>
             /\ committed' = Append(committed,
                                     [size |-> order_size, machine |-> found.best_machine,
                                      start_time |-> found.min_time])
             /\ last' = <<[machine |-> found.best_machine, size |-> order_size,
                          before |-> machine_times]>>
             /\ Apply(transition)
             /\ Completed(TRUE)
             /\ UNCHANGED <<num_machines, production_rate, pc, result, error, orders,
                            entry_times, entry_schedules, calls, total>>

\* _find_best_machine(order_size), then line 194; Raise when it throws.
Assign(order_size, transition) ==
    IF production_rate = 0
    THEN Raise("ZeroDivisionError", current_state, tape[ListIndex(Len(tape), head_position)])
    ELSE IF Len(machine_times) = 0
    THEN Raise("IndexError", current_state, tape[ListIndex(Len(tape), head_position)])
    ELSE LET found == FindBest(machine_times, num_machines)
             best  == found.best_machine + 1
         IN  /\ machine_times' =
                    [machine_times EXCEPT
                       ![best] = FloatAdd(@, TrueDiv(order_size, production_rate))]
             /\ machine_schedules' =
                    [machine_schedules EXCEPT
                       ![best] = Append(@, Entry(order_size, found.min_time))]
             /\ current_number' = <<>>
             /\ committed' = Append(committed,
                                     [size |-> order_size, machine |-> found.best_machine,
                                      start_time |-> found.min_time])
             /\ last' = <<[machine |-> found.best_machine, size |-> order_size,
                          before |-> machine_times]>>
             /\ Apply(transition)
             /\ Completed(TRUE)
             /\ UNCHANGED <<num_machines, production_rate, pc, result, error, orders,
                            entry_times, entry_schedules, calls, total>>

\* One iteration of the run loop (lines 174-205).
Step ==
    /\ pc = "running"
    /\ ~is_final(current_state)
    /\ IF ~ValidIndex(Len(tape), head_position)
       THEN Raise("IndexError", current_state, None)
       ELSE LET current_symbol == tape[ListIndex(Len(tape), head_position)]
                transition     == get_transition(current_state, current_symbol)
            IN  IF transition = NoTransition
                THEN Raise("NoTransition", current_state, current_symbol)
                ELSE IF current_state = "READ"
                THEN /\ current_number' = IF isdigit(current_symbol)
                                          THEN Append(current_number, current_symbol)
                                          ELSE current_number
                     /\ Apply(transition)
                     /\ Completed(FALSE)
                     /\ UNCHANGED <<num_machines, production_rate, machine_times,
                                    machine_schedules, pc, result, error, orders,
                                    committed, last, entry_times, entry_schedules,
                                    calls, total>>
                ELSE IF current_state = "MARK" /\ current_number # <<>>
                THEN Assign(int(current_number), transition)
                ELSE /\ Apply(transition)
                     /\ Completed(FALSE)
                     /\ UNCHANGED <<num_machines, production_rate, current_number,
                                    machine_times, machine_schedules, pc, result, error,
                                    orders, committed, last, entry_times,
                                    entry_schedules, calls, total>>

\* The loop ends in a final state: lines 207-208.
Return ==
    /\ pc = "running"
    /\ is_final(current_state)
    /\ pc' = "returned"
    /\ result' = <<_generate_schedule(machine_schedules, machine_times)>>
    /\ UNCHANGED <<num_machines, production_rate, tape, head_position, current_state,
                   current_number, machine_times, machine_schedules, error, orders,
                   committed, last, entry_times, entry_schedules, calls, total, steps>>

\* A call is made when no call is running; the lists are enumerated only then.
Call ==
    /\ pc # "running"
    /\ \E new_orders \in OrderLists(MaxTotal - total) \cup {MainOrders} :
          ProcessOrders(new_orders)

Next ==
    \/ Call
    \/ Step
    \/ Return

Spec == Init /\ [][Next]_vars

(***************************************************************************)
(* Properties.                                                             *)
(***************************************************************************)
Finished == pc \in {"returned", "raised"}

SizesOf(assignments) == [k \in DOMAIN assignments |-> assignments[k].size]

RECURSIVE SumInts(_)
SumInts(l) == IF l = <<>> THEN 0 ELSE Head(l) + SumInts(Tail(l))

\* Python's sum() of floats: from 0, left to right.
RECURSIVE FloatSumFrom(_, _)
FloatSumFrom(start, l) ==
    IF l = <<>> THEN start ELSE FloatSumFrom(FloatAdd(start, Head(l)), Tail(l))

FloatSum(l) == FloatSumFrom(Zero, l)

\* The float of a natural number.
Float(n) == TrueDiv(n, 1)

Machines == 1..Len(machine_times)

\* C1: every list of N positive integers passed to process_orders has, when
\* the call is over, exactly N orders committed, the k-th the k-th input.
C1_EveryOrderCommitted ==
    (Finished /\ \A k \in DOMAIN orders : orders[k] > 0)
        => SizesOf(committed) = orders

\* What holds of C1 on the instances that can schedule at all.
C1_OnSchedulingInstances ==
    (Finished /\ num_machines >= 1 /\ production_rate # 0
              /\ \A k \in DOMAIN orders : orders[k] > 0)
        => /\ pc = "returned"
           /\ SizesOf(committed) = orders

\* C2: at every assignment the chosen machine's time just before it is <=
\* that of every machine, no machine of a lower index had that time, and the
\* entry went to the chosen machine with that time as start_time.
C2_GreedyChoice ==
    last # <<>> =>
        LET chosen == last[1].machine + 1
            before == last[1].before
        IN  /\ chosen \in DOMAIN before
            /\ \A j \in DOMAIN before :
                  /\ ~FloatLess(before[j], before[chosen])
                  /\ j < chosen => FloatLess(before[chosen], before[j])
            /\ machine_schedules[chosen] # <<>>
            /\ machine_schedules[chosen][Len(machine_schedules[chosen])]
                  = Entry(last[1].size, before[chosen])

\* An assignment made when three machines were tied behind a busier one.
C2_Witness ==
    /\ last # <<>>
    /\ Len(last[1].before) = 5
    /\ last[1].machine = 1
    /\ ~IsZero(last[1].before[1])
    /\ IsZero(last[1].before[2])
    /\ IsZero(last[1].before[5])

\* The time a log accounts for: the sum of size / production_rate, in order.
RECURSIVE LogTime(_, _)
LogTime(log, rate) ==
    IF log = <<>> THEN Zero
    ELSE FloatAdd(LogTime(SubSeq(log, 1, Len(log) - 1), rate),
                  TrueDiv(log[Len(log)].size, rate))

\* C3: the schedule returned for an order list has total times that sum to
\* sum(orders) / production_rate, and every machine's time is what its log
\* accounts for.
C3_WorkConserved ==
    production_rate > 0 =>
        /\ \A i \in Machines : machine_times[i] = LogTime(machine_schedules[i], production_rate)
        /\ (pc = "returned" /\ calls = 1) =>
               FloatSum([i \in Machines |-> result[1][i].total_time])
                   = TrueDiv(SumInts(orders), production_rate)

\* C4 as stated: a call with the empty list returns a schedule whose
\* machines all have no orders and total_time 0 (stated here for the
\* instances of a machine or more and a positive rate that were only ever
\* given positive sizes).
C4_EmptyListEmptySchedule ==
    (/\ pc = "returned" /\ orders = <<>>
     /\ num_machines >= 1 /\ production_rate > 0
     /\ \A i \in DOMAIN entry_schedules :
           \A k \in DOMAIN entry_schedules[i] : entry_schedules[i][k].size > 0) =>
        \A i \in DOMAIN result[1] :
            result[1][i].orders = <<>> /\ result[1][i].total_time = Zero

\* C4, amended: a call with the empty list goes from START to FINAL with no
\* assignment and returns the loads the instance had before the call: all
\* empty and 0 when no order was committed to the instance before.
C4_EmptyListKeepsLoads ==
    (pc # "idle" /\ orders = <<>>) =>
        /\ current_state \in {"START", "FINAL"}
        /\ pc # "raised"
        /\ committed = <<>>
        /\ machine_times = entry_times
        /\ machine_schedules = entry_schedules
        /\ pc = "returned" =>
              /\ current_state = "FINAL"
              /\ result = <<_generate_schedule(entry_schedules, entry_times)>>
              /\ (\A i \in DOMAIN entry_schedules : entry_schedules[i] = <<>>) =>
                    \A i \in DOMAIN result[1] :
                        result[1][i].orders = <<>> /\ result[1][i].total_time = Zero

\* The empty list returned on a new instance of five machines.
C4_Witness ==
    /\ pc = "returned"
    /\ orders = <<>>
    /\ calls = 1
    /\ Len(result[1]) = 5

\* C5: the list of main() on a new instance of 5 machines at rate 10.
MainMachines == <<1, 2, 3, 4, 5, 5, 4, 5, 1, 2, 2>>
MainStartTimes == <<0, 0, 0, 0, 0, 1, 2, 4, 5, 10, 18>>
MainTotalTimes == <<85, 25, 20, 102, 54>>

C5_MainScenario ==
    (/\ pc = "returned" /\ calls = 1 /\ orders = MainOrders
     /\ num_machines = 5 /\ production_rate = 10) =>
        /\ Len(committed) = Len(MainOrders)
        /\ \A k \in DOMAIN committed :
              /\ committed[k].size = MainOrders[k]
              /\ committed[k].machine + 1 = MainMachines[k]
              /\ committed[k].start_time = Float(MainStartTimes[k])
        /\ \A i \in 1..5 : result[1][i].total_time = Float(MainTotalTimes[i])
        /\ Entry(1000, Float(2)) \in Range(result[1][4].orders)

C5_Witness ==
    /\ pc = "returned" /\ calls = 1 /\ orders = MainOrders
    /\ num_machines = 5 /\ production_rate = 10
    /\ Len(committed) = 11

\* The symbols the transition table knows.
Alphabet == Range(digits) \cup {"#", "B", "*"}

\* The symbol under the head.
UnderHead == tape[ListIndex(Len(tape), head_position)]

\* C7: a (state, symbol) pair without a transition aborts the run at that
\* step, with an error that names the state and the symbol: the step writes
\* no cell, keeps state, head, buffer and loads, and no Schedule is returned;
\* nothing runs after it until the next call.  A symbol outside the alphabet
\* under the head is such a pair.
C7_AbortsOnMissingTransition ==
    /\ [](error.kind = "NoTransition" =>
            /\ pc = "raised"
            /\ result = <<>>
            /\ error.state = current_state
            /\ error.symbol = UnderHead
            /\ get_transition(current_state, UnderHead) = NoTransition)
    /\ [][/\ (pc = "running" /\ ~is_final(current_state)
                /\ ValidIndex(Len(tape), head_position)
                /\ get_transition(current_state, UnderHead) = NoTransition)
              => /\ error'.kind = "NoTransition"
                 /\ UNCHANGED <<tape, head_position, current_state, current_number,
                                machine_times, machine_schedules, committed, result>>
          /\ (pc = "running" /\ ValidIndex(Len(tape), head_position)
                /\ UnderHead \notin Alphabet)
              => error'.kind = "NoTransition" /\ error'.symbol = UnderHead
          /\ pc = "raised" => pc' = "running" /\ calls' = calls + 1
         ]_vars

\* The run of [1, -5] aborted in READ on "-", after 1 was committed.
C7_Witness ==
    /\ pc = "raised"
    /\ error = [kind |-> "NoTransition", state |-> "READ", symbol |-> "-"]
    /\ Len(committed) = 1
    /\ head_position = 3

\* C8: an order list with a size that is zero or negative is rejected at
\* intake: the run never commits an order of it, returns nothing for it and
\* leaves the loads and logs as they were before the call.
C8_RejectedAtIntake ==
    (\E k \in DOMAIN orders : orders[k] <= 0) =>
        /\ committed = <<>>
        /\ result = <<>>
        /\ machine_times = entry_times
        /\ machine_schedules = entry_schedules

\* C9: no instance with num_machines <= 0 or production_rate <= 0 gets to
\* process_orders.
C9_ConfigurationRejected ==
    pc # "idle" => num_machines > 0 /\ production_rate > 0

\* The entries this call appended to the log of machine i (1-based).
EntriesFor(assignments, i) ==
    LET mine == SelectSeq(assignments, LAMBDA a : a.machine + 1 = i)
    IN  [k \in DOMAIN mine |-> Entry(mine[k].size, mine[k].start_time)]

\* The time of machine i after the entries are added to time `start`.
RECURSIVE TimeAfter(_, _, _)
TimeAfter(start, entries, rate) ==
    IF entries = <<>> THEN start
    ELSE FloatAdd(TimeAfter(start, SubSeq(entries, 1, Len(entries) - 1), rate),
                  TrueDiv(entries[Len(entries)].size, rate))

\* C10: loads persist across calls: through every call each machine's log is
\* its log from before the call followed by the entries of this call, its
\* first choice of the call is made on the loads the earlier calls left, and
\* the schedule returned holds these logs, with as total_time the time from
\* before the call plus this call's work.
C10_LoadsPersist ==
    pc # "idle" =>
        /\ \A i \in Machines :
              machine_schedules[i] = entry_schedules[i] \o EntriesFor(committed, i)
        /\ Len(committed) = 1 => last[1].before = entry_times
        /\ pc = "returned" =>
              /\ result = <<_generate_schedule(machine_schedules, machine_times)>>
              /\ \A i \in Machines :
                    result[1][i].total_time =
                        TimeAfter(entry_times[i], EntriesFor(committed, i), production_rate)

\* A second call returned, on a machine that the first call had loaded and
\* the second loaded further.
C10_Witness ==
    /\ pc = "returned"
    /\ calls = 2
    /\ \E i \in Machines :
          /\ entry_schedules[i] # <<>>
          /\ Len(machine_schedules[i]) > Len(entry_schedules[i])
          /\ FloatLess(entry_times[i], machine_times[i])

\* How a call may end: returned from FINAL, or raised the
\* undefined-transition error.
EndsInFinalOrNoTransition ==
    /\ pc = "returned" => current_state = "FINAL"
    /\ pc = "raised" => error.kind = "NoTransition"

\* C11: every call ends in FINAL or in the undefined-transition error, and
\* a call on a list of positive integers ends in FINAL (stated here for the
\* calls on lists of positive integers).
C11_EndsInFinalOrNoTransition ==
    (\A k \in DOMAIN orders : orders[k] > 0) =>
        /\ EndsInFinalOrNoTransition
        /\ Finished => pc = "returned" /\ current_state = "FINAL"

\* What holds of C11 on the instances that can schedule at all: every call
\* ends in one of the two ways, on positive integers in FINAL, and FINAL is
\* the state of a run that returns only.
C11_OnSchedulingInstances ==
    (num_machines >= 1 /\ production_rate # 0) =>
        /\ EndsInFinalOrNoTransition
        /\ C11_EndsInFinalOrNoTransition
        /\ current_state = "FINAL" => pc \in {"running", "returned"}

\* The chain of start times on one log: the first entry starts at `first`,
\* each later one when the one before it ends, and never earlier than that
\* one started.
StartTimesChain(log, first, rate) ==
    /\ log # <<>> => log[1].start_time = first
    /\ \A k \in 1..(Len(log) - 1) :
          /\ log[k + 1].start_time = FloatAdd(log[k].start_time, TrueDiv(log[k].size, rate))
          /\ ~FloatLess(log[k + 1].start_time, log[k].start_time)

\* C12: on every machine the log starts at 0 and start_time(k+1) =
\* start_time(k) + size(k) / production_rate, so the start times on a
\* machine never decrease and consecutive jobs never overlap (stated here
\* for the logs of positive sizes).
C12_StartTimesChain ==
    \A i \in Machines :
        (\A k \in DOMAIN machine_schedules[i] : machine_schedules[i][k].size > 0) =>
            StartTimesChain(machine_schedules[i], Zero, production_rate)

\* What holds of C12 on the instances of a positive production rate.
C12_OnPositiveRates ==
    production_rate > 0 =>
        \A i \in Machines : StartTimesChain(machine_schedules[i], Zero, production_rate)

\* The step that commits an order: the only kind of step that grows
\* `committed`.
Commits == Len(committed') = Len(committed) + 1

\* C13: an assignment changes the chosen machine only: its log grows by
\* exactly one entry, the time and the log of every other machine stay, and
\* the tape, the head and the automaton state change in that step as the
\* transition taken says and no further; an assignment that throws changes
\* nothing at all.
C13_AssignmentFrame ==
    [][/\ Commits =>
            LET chosen     == committed'[Len(committed')].machine + 1
                transition == get_transition(current_state, UnderHead)
            IN  /\ chosen \in Machines
                /\ DOMAIN machine_times' = Machines
                /\ DOMAIN machine_schedules' = Machines
                /\ \A j \in Machines \ {chosen} :
                      /\ machine_times'[j] = machine_times[j]
                      /\ machine_schedules'[j] = machine_schedules[j]
                /\ Len(machine_schedules'[chosen]) = Len(machine_schedules[chosen]) + 1
                /\ SubSeq(machine_schedules'[chosen], 1, Len(machine_schedules[chosen]))
                      = machine_schedules[chosen]
                /\ Len(tape') = Len(tape)
                /\ \A c \in DOMAIN tape :
                      tape'[c] = IF c = head_position + 1 THEN transition.write_symbol
                                 ELSE tape[c]
                /\ current_state' = transition.next_state
                /\ head_position' = head_position
                                      + (IF transition.direction = "R" THEN 1 ELSE -1)
       /\ (pc = "running" /\ pc' = "raised" /\ error'.kind # "NoTransition") =>
            UNCHANGED <<tape, head_position, current_state, current_number,
                        machine_times, machine_schedules, committed>>
      ]_vars

\* An assignment was just made on an instance of several machines where
\* another machine has a log.
C13_Witness ==
    /\ last # <<>>
    /\ current_state = "MARK"
    /\ current_number = <<>>
    /\ \E j \in Machines : j # last[1].machine + 1 /\ machine_schedules[j] # <<>>

\* C14: in a run on a tape built from non-negative integers the head is on
\* a cell of the tape, 0 <= head_position <= len(tape) - 1, whenever the
\* loop reads and writes (the state is not FINAL), also while MARK moves
\* left, and it is len(tape) exactly when the state is FINAL; no read of
\* the tape raises IndexError.
C14_HeadBounds ==
    (pc # "idle" /\ \A k \in DOMAIN orders : orders[k] >= 0) =>
        /\ head_position >= 0
        /\ head_position <= Len(tape)
        /\ (head_position = Len(tape)) <=> (current_state = "FINAL")
        /\ ~(error.kind = "IndexError" /\ error.symbol = None)

\* MARK has walked left over a number of two digits to the '#' of cell 0.
C14_Witness ==
    /\ pc = "running"
    /\ current_state = "MARK"
    /\ head_position = 0
    /\ Len(tape) >= 4
    /\ tape[2] = "*" /\ tape[3] = "*"

\* The tape the current call started on.
InitialTape == _prepare_tape(orders)

\* The order (1-based) whose cell c of the tape t is: the number of '#'
\* cells up to c.
OrderOfCellIn(t, c) == Cardinality({b \in 1..c : t[b] = "#"})

\* C15: during a run the tape keeps its length, every '#' cell and the
\* trailing 'B' keep their symbol, a cell holds '*' only if it was a digit of
\* an order already committed (any other cell holds what it held at the
\* start), and in FINAL every digit cell of the initial tape holds '*'.
C15_TapeEvolution ==
    pc # "idle" =>
        LET initial == InitialTape
        IN  /\ Len(tape) = Len(initial)
            /\ tape[Len(tape)] = "B"
            /\ \A c \in DOMAIN tape :
                  /\ initial[c] \in {"#", "B"} => tape[c] = initial[c]
                  /\ tape[c] = "*" =>
                        isdigit(initial[c]) /\ OrderOfCellIn(initial, c) <= Len(committed)
                  /\ tape[c] # "*" => tape[c] = initial[c]
                  /\ (current_state = "FINAL" /\ isdigit(initial[c])) => tape[c] = "*"

\* A run of two orders in FINAL, every digit marked.
C15_Witness ==
    /\ current_state = "FINAL"
    /\ tape = <<"#", "*", "*", "#", "*", "B">>
    /\ Len(committed) = 2

\* The digit cells (1-based) that order k has on the tape t.
DigitCellsIn(t, k) == {c \in DOMAIN t : OrderOfCellIn(t, c) = k /\ isdigit(t[c])}

\* The last iteration completed.
LastStep == steps[Len(steps)]

\* C16: each order is committed once, the k-th commit being order k, in the
\* first MARK step after the READ pass over its digits: by then READ has read
\* every digit of the order, none of them is overwritten yet and no digit of
\* a later order was read.  A MARK step that follows a MARK step finds the
\* buffer empty and commits nothing, and a call that returns has committed
\* every order.
C16_CommitOrdering ==
    /\ [](/\ (pc = "running" /\ current_state = "MARK" /\ steps # <<>>
                /\ LastStep.state = "MARK") => current_number = <<>>
          /\ Len(committed) <= Len(orders)
          /\ pc = "returned" => Len(committed) = Len(orders))
    /\ [][/\ Commits =>
               LET k       == Len(committed')
                   initial == InitialTape
               IN  /\ current_state = "MARK"
                   /\ steps # <<>> /\ LastStep.state = "READ"
                   /\ k <= Len(orders)
                   /\ committed'[k].size = orders[k]
                   /\ current_number' = <<>>
                   /\ \A c \in DigitCellsIn(initial, k) :
                         /\ tape[c] = initial[c]
                         /\ \E i \in DOMAIN steps :
                               /\ steps[i].state = "READ"
                               /\ steps[i].position = c - 1
                               /\ steps[i].symbol = initial[c]
                   /\ \A i \in DOMAIN steps :
                         isdigit(steps[i].symbol) =>
                             OrderOfCellIn(initial, steps[i].position + 1) <= k
          /\ (pc = "running" /\ current_state = "MARK" /\ steps # <<>>
                /\ LastStep.state = "MARK") => ~Commits
          /\ (steps' # steps /\ steps' # <<>>) =>
                steps'[Len(steps')].commit = Commits
         ]_vars

\* The MARK step after the commit of a second order, of two digits, has
\* committed nothing.
C16_Witness ==
    /\ Len(steps) >= 2
    /\ LastStep.state = "MARK" /\ ~LastStep.commit
    /\ steps[Len(steps) - 1].commit
    /\ Len(committed) = 2
    /\ committed[2].size = 10

\* The orders before the first negative one: what a run gets to commit, a
\* negative order stopping it at its '-'.
RECURSIVE UpToNegative(_)
UpToNegative(l) ==
    IF l = <<>> \/ Head(l) < 0 THEN <<>> ELSE <<Head(l)>> \o UpToNegative(Tail(l))

\* The values a call on this instance commits, from its order list alone:
\* none on an instance whose first assignment throws.
CommitsOf(l) ==
    IF num_machines <= 0 \/ production_rate = 0 THEN <<>> ELSE UpToNegative(l)

IsPrefix(p, l) == Len(p) <= Len(l) /\ SubSeq(l, 1, Len(p)) = p

\* C17: every call starts its run on the tape of its own list, the head at
\* 0, the state START and the buffer empty, whatever the call before left
\* (also one that failed mid-run), and the values it commits, in order, are
\* a function of its order list alone.
C17_FreshRunPerCall ==
    /\ (pc = "running" /\ steps = <<>>) =>
          /\ tape = _prepare_tape(orders)
          /\ head_position = 0
          /\ current_state = "START"
          /\ current_number = <<>>
          /\ committed = <<>>
    /\ pc # "idle" => IsPrefix(SizesOf(committed), CommitsOf(orders))
    /\ Finished => SizesOf(committed) = CommitsOf(orders)

\* A call that returned with its order committed, on an instance whose call
\* before committed one order and then failed.
C17_Witness ==
    /\ pc = "returned"
    /\ calls = 2
    /\ committed # <<>>
    /\ total - Len(orders) = 2
    /\ \E i \in Machines :
          /\ Len(entry_schedules[i]) = 1
          /\ \A j \in Machines \ {i} : entry_schedules[j] = <<>>

\* The states of the run so far: the state of each completed iteration, then
\* the current state.
StateAt(i) == IF i <= Len(steps) THEN steps[i].state ELSE current_state

\* The state changes of START (READ+ MARK+ NEXT+)* FINAL.
Follows(s, t) ==
    \/ s = "START" /\ t \in {"READ", "FINAL"}
    \/ s = "READ"  /\ t \in {"READ", "MARK"}
    \/ s = "MARK"  /\ t \in {"MARK", "NEXT"}
    \/ s = "NEXT"  /\ t \in {"NEXT", "READ", "FINAL"}

\* The block of iteration i: the number of times READ was entered up to it.
BlockOf(i) ==
    Cardinality({j \in 2..i : steps[j].state = "READ" /\ steps[j - 1].state # "READ"})

\* The iterations in which READ read cell c (1-based).
ReadsOf(c) == {i \in DOMAIN steps : steps[i].state = "READ" /\ steps[i].position = c - 1}

\* C18: in a run on a tape built from non-negative integers the states go
\* START, then a block READ+ MARK+ NEXT+ for each order in turn, then FINAL:
\* the k-th block reads the digits of order k, READ reads each digit cell
\* once (exactly once by FINAL), and START and NEXT never read a digit.
C18_StateOrdering ==
    [](  (pc # "idle" /\ \A k \in DOMAIN orders : orders[k] >= 0) =>
            LET initial == InitialTape
            IN  /\ StateAt(1) = "START"
                /\ \A i \in 1..Len(steps) :
                      /\ Follows(StateAt(i), StateAt(i + 1))
                      /\ steps[i].state \in {"START", "NEXT"} => ~isdigit(steps[i].symbol)
                      /\ (steps[i].state = "READ" /\ isdigit(steps[i].symbol)) =>
                            OrderOfCellIn(initial, steps[i].position + 1) = BlockOf(i)
                      /\ BlockOf(i) <= Len(orders)
                /\ (Len(steps) >= 1 /\ orders # <<>>) => StateAt(2) = "READ"
                /\ \A c \in DOMAIN initial :
                      isdigit(initial[c]) =>
                          /\ Cardinality(ReadsOf(c)) <= 1
                          /\ current_state = "FINAL" => Cardinality(ReadsOf(c)) = 1
                /\ current_state = "FINAL" => BlockOf(Len(steps)) = Len(orders)  )

\* A run of two orders, the first of two digits, has reached FINAL.
C18_Witness ==
    /\ current_state = "FINAL"
    /\ Len(orders) = 2
    /\ orders[1] = 10
    /\ orders[2] >= 0
    /\ LastStep.state = "NEXT"
    /\ BlockOf(Len(steps)) = 2

\* Bit sequences, most significant bit first, for the subtraction of the
\* claim below.
BitsOf(c, width) == [i \in 1..width |-> (c \div Pow2(width - i)) % 2]

RECURSIVE ValueOf(_)
ValueOf(bits) ==
    IF Len(bits) = 1 THEN bits[1]
    ELSE ValueOf(SubSeq(bits, 1, Len(bits) \div 2)) * Pow2(Len(bits) - Len(bits) \div 2)
         + ValueOf(SubSeq(bits, Len(bits) \div 2 + 1, Len(bits)))

Mantissa(x) == BitsOf(x.hi, HiWidth) \o BitsOf(x.lo, LoWidth)

Zeros(k) == [i \in 1..k |-> 0]

\* The carry that the bits after position i of x + y send into position i.
CarryInto(x, y, i) ==
    \E j \in (i + 1)..Len(x) :
        /\ x[j] = 1 /\ y[j] = 1
        /\ \A k \in (i + 1)..(j - 1) : x[k] + y[k] = 1

\* x + y + 1 on bit sequences of equal length, the carry out dropped.
AddBitsAndOne(x, y) ==
    [i \in 1..Len(x) |->
        (x[i] + y[i] + (IF CarryInto(x \o <<1>>, y \o <<1>>, i) THEN 1 ELSE 0)) % 2]

\* |big| - |small| as a float, for floats that are not Zero and
\* |big| >= |small|: the exact difference of the aligned mantissas
\* (big + ~small + 1), rounded.
MagSub(big, small) ==
    LET d    == big.exp - small.exp
        a    == Mantissa(big) \o Zeros(d)
        b    == Zeros(d) \o Mantissa(small)
        s    == AddBitsAndOne(a, [i \in DOMAIN b |-> 1 - b[i]])
        ones == {i \in DOMAIN s : s[i] = 1}
    IN  IF ones = {} THEN Zero
        ELSE LET z    == (CHOOSE i \in ones : \A j \in ones : i <= j) - 1
                 rest == SubSeq(s, z + 1, Len(s)) \o Zeros(Precision + 1)
             IN  RoundNearestEven(0, big.exp - z,
                                  ValueOf(SubSeq(rest, 1, HiWidth)),
                                  ValueOf(SubSeq(rest, HiWidth + 1, Precision)),
                                  rest[Precision + 1],
                                  \E i \in (Precision + 2)..Len(rest) : rest[i] = 1)

\* Python's x - y on floats of one sign with x >= y.
FloatSub(x, y) ==
    IF IsZero(y) THEN [x EXCEPT !.sign = 0]
    ELSE IF IsZero(x) THEN [y EXCEPT !.sign = 0]
    ELSE IF MagLess(x, y) THEN MagSub(y, x)
    ELSE MagSub(x, y)

\* max() and min() of a non-empty list of floats.
FloatMax(times) == CHOOSE t \in Range(times) : \A u \in Range(times) : ~FloatLess(t, u)
FloatMin(times) == CHOOSE t \in Range(times) : \A u \in Range(times) : ~FloatLess(u, t)

\* The sizes in the logs of the instance: every order committed so far.
CommittedSizes ==
    UNION {{machine_schedules[i][k].size : k \in DOMAIN machine_schedules[i]} : i \in Machines}

\* max(machine_times) - min(machine_times) <= largest / production_rate,
\* as Python evaluates it.
SpreadWithinLargest ==
    LET largest == CHOOSE n \in CommittedSizes : \A m \in CommittedSizes : m <= n
    IN  ~FloatLess(TrueDiv(largest, production_rate),
                   FloatSub(FloatMax(machine_times), FloatMin(machine_times)))

\* C19: on an instance of one machine or more that was given positive sizes
\* only, the largest and the smallest machine time are never further apart
\* than (the largest order committed so far) / production_rate.  Stated here
\* for the instances of a positive production rate.
C19_LoadBalanceBound ==
    (/\ num_machines >= 1 /\ production_rate > 0
     /\ CommittedSizes # {}
     /\ \A n \in CommittedSizes : n > 0
     /\ \A k \in DOMAIN orders : orders[k] > 0) =>
        SpreadWithinLargest

\* The same on every production rate the constructor accepts.
C19_OnEveryRate ==
    (/\ num_machines >= 1 /\ production_rate # 0
     /\ CommittedSizes # {}
     /\ \A n \in CommittedSizes : n > 0
     /\ \A k \in DOMAIN orders : orders[k] > 0) =>
        SpreadWithinLargest

====
